---- MODULE Spec2Model ----
(***************************************************************************)
(* A model of the stream-schedule bot of src/main.py: the store bot_data   *)
(* and its snapshot schedule.json, the command handler on_message, the     *)
(* startup handler on_ready and the recurring task                         *)
(* daily_schedule_announcer.                                               *)
(*                                                                         *)
(* Time is counted in ticks of half a day.  A handler runs without         *)
(* interruption up to an await; the only await followed by a write of the  *)
(* store is the announcer's channel.send, so the announcer is two steps    *)
(* (AnnouncerRun, SendDone) and every command is one.  Each call of        *)
(* datetime.now reads the clock anew, and the clock may have advanced      *)
(* since the previous read of the same handler.                            *)
(***************************************************************************)
EXTENDS Integers, Sequences, FiniteSets, TLC

\* ------------------------------------------------------------------ bounds
MaxClock == 2
MaxLen == 2

\* how far the clock may move between two reads of one handler
Drift == {0, 1}

\* ticks per UTC calendar day
DayLen == 2

\* ------------------------------------------------------------- vocabulary
\* Python's None, and a present optional value
None == <<>>
Some(x) == <<x>>

BOT_OWNER_ID == "owner"
Users == {"owner", "guest"}

\* zone names known to pytz, with their offset from UTC in ticks
KnownZones == {"UTC", "Pacific/Auckland"}
UtcOffset(z) == IF z = "Pacific/Auckland" THEN 1 ELSE 0
\* the settimezone calls made: who calls, with which name
TimezoneCalls ==
    {<<"guest", "Pacific/Auckland">>, <<"guest", "Mars/Phobos">>, <<"owner", "Mars/Phobos">>}

\* "YYYY-MM-DD HH:MM" strings: a day and a slot within the day; a slot of
\* DayLen or more is an hour outside the clock face, which strptime rejects
DateTime(d, s) == [day |-> d, slot |-> s]
Stream(dt, tz, desc) == [datetime |-> dt, original_timezone |-> tz, description |-> desc]

StreamA == Stream(DateTime(1, 0), "UTC", "a")
StreamB == Stream(DateTime(1, 1), "Pacific/Auckland", "b")
StreamC == Stream(DateTime(0, 1), "UTC", "c")
BadDate == Stream(DateTime(0, DayLen), "UTC", "x")
BadZone == Stream(DateTime(0, 0), "Mars/Phobos", "y")
\* the first day of the calendar, 0001-01-01: strptime accepts it
FirstDay == -1
StreamEdge == Stream(DateTime(FirstDay, 0), "Pacific/Auckland", "e")
GoodStreams == {StreamA, StreamB, StreamC}
BadStreams == {BadDate, BadZone}
AllStreams == GoodStreams \cup BadStreams

ChannelIds == {7}

Days == 0..(MaxClock \div DayLen)
Date(t) == t \div DayLen

Fields == {"streams", "user_timezones", "announcement_channel_id", "last_announced_date_utc"}

VARIABLES
    clock,      \* the real UTC clock, in ticks
    bot_data,   \* the in-memory store
    disk,       \* schedule.json
    connected,  \* on_ready has run in this process
    task,       \* the tasks.loop of the announcer: "unstarted", "running", "failed"
    pc,         \* the announcer's position: "idle" or "sending" (at its await)
    run,        \* the locals of the announcer run in flight
    sent,       \* history: per UTC date, the successful announcements of runs of that date
    lastOp,     \* history: the handler step taken last, its input and its reply
    listed      \* history: the list the last liststreams showed, while it is tracked

vars == <<clock, bot_data, disk, connected, task, pc, run, sent, lastOp, listed>>

\* ---------------------------------------------------------------- storage
EmptyStore ==
    [streams |-> <<>>, user_timezones |-> <<>>,
     announcement_channel_id |-> None, last_announced_date_utc |-> None]

NoData == [f \in {} |-> None]
MissingFile == [state |-> "missing", data |-> NoData]
CorruptFile == [state |-> "corrupt", data |-> NoData]
JsonFile(d) == [state |-> "json", data |-> d]

load_data(file) ==
    IF file.state = "missing" THEN EmptyStore
    ELSE IF file.state = "corrupt" THEN EmptyStore
    ELSE [f \in DOMAIN file.data \cup {"announcement_channel_id", "last_announced_date_utc"} |->
            IF f \in DOMAIN file.data THEN file.data[f] ELSE None]

save_data(data) == JsonFile(data)

\* --------------------------------------------------------------- timezone
strptime_ok(dt) == dt.slot < DayLen
strptime(dt) == dt.day * DayLen + dt.slot
timezone_ok(z) == z \in KnownZones

\* line 88: localize of a zone with transitions looks a day to either side
\* of the date, which overflows at the ends of the calendar; UTC only attaches
\* itself
localize_ok(dt, z) == ~(dt.day = FirstDay /\ z # "UTC")

\* the try block of lines 86-88: all three calls return
Localizes(s) ==
    /\ strptime_ok(s.datetime)
    /\ timezone_ok(s.original_timezone)
    /\ localize_ok(s.datetime, s.original_timezone)
\* original_tz.localize(stream_dt_naive) as an absolute instant
Localized(s) == strptime(s.datetime) - UtcOffset(s.original_timezone)

get_user_timezone(data, u) ==
    IF u \in DOMAIN data.user_timezones THEN data.user_timezones[u] ELSE "UTC"

SetPref(tzs, u, z) == [x \in DOMAIN tzs \cup {u} |-> IF x = u THEN z ELSE tzs[x]]

set_user_timezone_unchecked(data, u, z) ==
    [ok |-> timezone_ok(z),
     data |-> [data EXCEPT !.user_timezones = SetPref(@, u, z)]]

set_user_timezone(data, u, z) ==
    IF timezone_ok(z)
    THEN [ok |-> TRUE, data |-> [data EXCEPT !.user_timezones = SetPref(@, u, z)]]
    ELSE [ok |-> FALSE, data |-> data]

\* ---------------------------------------------------------------- curator
\* one pass of the loop body of clean_old_streams: is the entry appended to
\* updated_streams?  An entry that fails to localize is kept.
CleanKeeps_dropBad(s, now) == Localizes(s) /\ Localized(s) > now

CleanKeeps_ge(s, now) == IF Localizes(s) THEN Localized(s) >= now ELSE TRUE

CleanKeeps(s, now) == IF Localizes(s) THEN Localized(s) > now ELSE TRUE

\* the for loop of clean_old_streams from entry i on; acc is
\* (updated_streams, removed_count)
RECURSIVE CleanLoop_first(_, _, _, _)
CleanLoop_first(streams, i, now, acc) ==
    IF i > Len(streams) THEN acc
    ELSE IF CleanKeeps(streams[i], now) \/ acc.removed > 0
         THEN CleanLoop_first(streams, i + 1, now,
                              [acc EXCEPT !.kept = Append(@, streams[i])])
         ELSE CleanLoop_first(streams, i + 1, now, [acc EXCEPT !.removed = @ + 1])

RECURSIVE CleanLoop(_, _, _, _)
CleanLoop(streams, i, now, acc) ==
    IF i > Len(streams) THEN acc
    ELSE IF CleanKeeps(streams[i], now)
         THEN CleanLoop(streams, i + 1, now, [acc EXCEPT !.kept = Append(@, streams[i])])
         ELSE CleanLoop(streams, i + 1, now, [acc EXCEPT !.removed = @ + 1])

\* clean_old_streams with now_utc = now: the store, the file and the count
clean_old_streams_nosave(data, file, now) ==
    LET r == CleanLoop(data.streams, 1, now, [kept |-> <<>>, removed |-> 0])
    IN [data |-> [data EXCEPT !.streams = r.kept], disk |-> file, removed |-> r.removed]

clean_old_streams_off(data, file, now) == [data |-> data, disk |-> file, removed |-> 0]

clean_old_streams(data, file, now) ==
    LET r == CleanLoop(data.streams, 1, now, [kept |-> <<>>, removed |-> 0])
        d == [data EXCEPT !.streams = r.kept]
    IN IF r.removed > 0
       THEN [data |-> d, disk |-> save_data(d), removed |-> r.removed]
       ELSE [data |-> data, disk |-> file, removed |-> 0]

\* list.sort(key=lambda x: x[0]) is stable: an entry goes behind every
\* entry already placed whose timestamp is not larger
RECURSIVE InsertByKey_front(_, _)
InsertByKey_front(sorted, x) ==
    IF sorted = <<>> THEN <<x>>
    ELSE IF Head(sorted)[1] < x[1]
         THEN <<Head(sorted)>> \o InsertByKey_front(Tail(sorted), x)
         ELSE <<x>> \o sorted

RECURSIVE InsertByKey(_, _)
InsertByKey(sorted, x) ==
    IF sorted = <<>> THEN <<x>>
    ELSE IF Head(sorted)[1] <= x[1]
         THEN <<Head(sorted)>> \o InsertByKey(Tail(sorted), x)
         ELSE <<x>> \o sorted

RECURSIVE SortByKey(_, _)
SortByKey(list, i) ==
    IF i = 0 THEN <<>> ELSE InsertByKey(SortByKey(list, i - 1), list[i])

\* does the loop body of lines 136-152 (and 238-255) append the entry?
UpcomingKeeps(s, now) == Localizes(s) /\ Localized(s) > now

\* the loop that collects (unix_timestamp, description)
RECURSIVE UpcomingLoop(_, _, _)
UpcomingLoop(streams, i, now) ==
    IF i > Len(streams) THEN <<>>
    ELSE IF UpcomingKeeps(streams[i], now)
         THEN <<(<<Localized(streams[i]), streams[i].description>>)>>
                 \o UpcomingLoop(streams, i + 1, now)
         ELSE UpcomingLoop(streams, i + 1, now)

\* upcoming_streams as sent: collected, then sorted when not empty
upcoming_streams(streams, now) ==
    LET u == UpcomingLoop(streams, 1, now) IN SortByKey(u, Len(u))

\* ------------------------------------------------------------ history record
Blank ==
    [op |-> "", user |-> "", zone |-> "", idx |-> -1, stream |-> StreamA,
     reply |-> "", removed |-> 0,
     shown |-> <<>>]

IdleRun == [today |-> 0, empty |-> FALSE]

Bump(f, d) == [f EXCEPT ![d] = IF @ < 2 THEN @ + 1 ELSE @]

\* ------------------------------------------------------------------- Init
\* a snapshot written before the announcer existed: lines 45-48 add its keys
LegacyFile == JsonFile([streams |-> <<>>, user_timezones |-> <<>>])

\* the snapshots a process may find at its first start: none, one of the old
\* format, or one whose streams were written by hand
InitialFiles ==
    {MissingFile, LegacyFile} \cup
    {JsonFile([EmptyStore EXCEPT !.streams = q]) : q \in {<<>>} \cup {<<s>> : s \in BadStreams}}

Init ==
    /\ clock = 0
    /\ disk \in InitialFiles
    /\ bot_data = load_data(disk)
    /\ connected = FALSE
    /\ task = "unstarted"
    /\ pc = "idle"
    /\ run = IdleRun
    /\ sent = [d \in Days |-> 0]
    /\ lastOp = Blank
    /\ listed = None

\* --------------------------------------------------------------- announcer
\* line 123: has this date been announced already?
AlreadyAnnounced_never(data, today) == FALSE

AlreadyAnnounced(data, today) == data.last_announced_date_utc = Some(today)

\* lines 155-157 and 174-180: the store after channel.send returned or raised
AfterSend_forget(data, today, ok) == data

AfterSend_clobber(data, today, ok) ==
    IF ok THEN [data EXCEPT !.last_announced_date_utc = Some(today), !.streams = <<>>] ELSE data

AfterSend_always(data, today, ok) == [data EXCEPT !.last_announced_date_utc = Some(today)]

AfterSend(data, today, ok) ==
    IF ok THEN [data EXCEPT !.last_announced_date_utc = Some(today)] ELSE data

\* lines 154-158 run outside any try: an exception of channel.send leaves the
\* coroutine.  tasks.loop retries after the connection errors it knows
\* (OSError, aiohttp.ClientError, asyncio.TimeoutError, ...) and ends the
\* task on any other exception, discord.Forbidden among them.  Lines 173-180
\* catch every exception.
TaskAfterSend(empty, result) ==
    IF result = "Forbidden" /\ empty THEN "failed" ELSE "running"

\* lines 112-117: no destination
AnnouncerNoChannel ==
    LET c == clean_old_streams(bot_data, disk, clock) IN
    /\ c.data.announcement_channel_id = None
    /\ bot_data' = c.data /\ disk' = c.disk
    /\ lastOp' = [Blank EXCEPT !.op = "announcer", !.reply = "NoChannel",
                                !.removed = c.removed]
    /\ UNCHANGED <<clock, pc, run, sent>>

\* lines 119-125: the date was announced
AnnouncerSuppressed ==
    LET c == clean_old_streams(bot_data, disk, clock) IN
    \E d1 \in Drift :
        LET today_utc == Date(clock + d1) IN
        /\ clock + d1 <= MaxClock
        /\ c.data.announcement_channel_id # None
        /\ AlreadyAnnounced(c.data, today_utc)
        /\ bot_data' = c.data /\ disk' = c.disk
        /\ clock' = clock + d1
        /\ lastOp' = [Blank EXCEPT !.op = "announcer", !.reply = "Suppressed",
                                    !.removed = c.removed]
        /\ UNCHANGED <<pc, run, sent>>

\* lines 127-130: client.get_channel finds no channel
AnnouncerUnreachable ==
    LET c == clean_old_streams(bot_data, disk, clock) IN
    \E d1 \in Drift :
        LET today_utc == Date(clock + d1) IN
        /\ clock + d1 <= MaxClock
        /\ c.data.announcement_channel_id # None
        /\ ~AlreadyAnnounced(c.data, today_utc)
        /\ bot_data' = c.data /\ disk' = c.disk
        /\ clock' = clock + d1
        /\ lastOp' = [Blank EXCEPT !.op = "announcer", !.reply = "Unreachable",
                                    !.removed = c.removed]
        /\ UNCHANGED <<pc, run, sent>>

\* lines 132-155 and 160-174: the message is built and channel.send awaited
AnnouncerSend ==
    LET c == clean_old_streams(bot_data, disk, clock) IN
    \E d1, d2 \in Drift :
        LET today_utc == Date(clock + d1)
            now_utc == clock + d1 + d2
            up == upcoming_streams(c.data.streams, now_utc)
        IN
        /\ now_utc <= MaxClock
        /\ c.data.announcement_channel_id # None
        /\ ~AlreadyAnnounced(c.data, today_utc)
        /\ bot_data' = c.data /\ disk' = c.disk
        /\ clock' = now_utc
        /\ pc' = "sending"
        /\ run' = [today |-> today_utc, empty |-> (up = <<>>)]
        /\ lastOp' = [Blank EXCEPT !.op = "announcer", !.reply = "Sending",
                                    !.removed = c.removed,
                                    !.shown = up]
        /\ UNCHANGED sent

AnnouncerRun ==
    /\ connected /\ task = "running" /\ pc = "idle"
    /\ \/ AnnouncerNoChannel
       \/ AnnouncerSuppressed
       \/ AnnouncerUnreachable
       \/ AnnouncerSend
    /\ UNCHANGED <<connected, task>>

\* channel.send returns or raises, and the run ends
SendDone ==
    /\ pc = "sending"
    /\ \E result \in {"ok", "Forbidden", "Transport"} :
        LET d == AfterSend(bot_data, run.today, result = "ok") IN
        /\ bot_data' = d
        /\ disk' = IF result = "ok" THEN save_data(d) ELSE disk
        /\ sent' = IF result = "ok" THEN Bump(sent, run.today) ELSE sent
        /\ task' = TaskAfterSend(run.empty, result)
        /\ lastOp' = [Blank EXCEPT !.op = "send",
                                    !.reply = IF result = "ok" THEN "Announced" ELSE result]
    /\ pc' = "idle"
    /\ run' = IdleRun
    /\ UNCHANGED <<clock, connected>>

\* ------------------------------------------------------------- environment
Tick ==
    /\ clock < MaxClock
    /\ clock' = clock + 1
    /\ lastOp' = [Blank EXCEPT !.op = "tick"]
    /\ UNCHANGED <<bot_data, disk, connected, task, pc, run, sent>>

\* the process ends and starts again: line 60 loads the snapshot
Restart ==
    /\ bot_data' = load_data(disk)
    /\ connected' = FALSE
    /\ task' = "unstarted"
    /\ pc' = "idle"
    /\ run' = IdleRun
    /\ lastOp' = [Blank EXCEPT !.op = "restart"]
    /\ UNCHANGED <<clock, disk, sent>>

\* line 195: not daily_schedule_announcer.is_running()
Starts(t) == t # "running"

\* on_ready, at the first connection and at every later one
on_ready ==
    LET c == clean_old_streams(bot_data, disk, clock) IN
    /\ bot_data' = c.data /\ disk' = c.disk
    /\ connected' = TRUE
    /\ task' = IF Starts(task) THEN "running" ELSE task
    /\ lastOp' = [Blank EXCEPT !.op = "on_ready", !.removed = c.removed,
                                !.reply = IF Starts(task) THEN "Started" ELSE "Running"]
    /\ UNCHANGED <<clock, pc, run, sent>>

\* ---------------------------------------------------------------- commands
\* every command leaves the announcer and the clock of the process alone
CommandFrame == UNCHANGED <<connected, task, pc, run, sent>>

\* lines 213-230
settimezone(u) ==
    \/ /\ lastOp' = [Blank EXCEPT !.op = "settimezone", !.user = u, !.reply = "Usage"]
       /\ UNCHANGED <<clock, bot_data, disk>>
    \/ \E z \in {c[2] : c \in {x \in TimezoneCalls : x[1] = u}} :
        LET r == set_user_timezone(bot_data, u, z) IN
        /\ bot_data' = r.data
        /\ disk' = IF r.ok THEN save_data(r.data) ELSE disk
        /\ lastOp' = [Blank EXCEPT !.op = "settimezone", !.user = u, !.zone = z,
                                    !.reply = IF r.ok THEN "TimezoneSet" ELSE "InvalidTimezone"]
        /\ UNCHANGED clock

\* lines 232-273
schedule(u) ==
    LET c == clean_old_streams(bot_data, disk, clock) IN
    \E d1 \in Drift :
        LET now_utc == clock + d1
            up == upcoming_streams(c.data.streams, now_utc)
        IN
        /\ now_utc <= MaxClock
        /\ bot_data' = c.data /\ disk' = c.disk
        /\ clock' = now_utc
        /\ lastOp' = [Blank EXCEPT !.op = "schedule", !.user = u,
                                    !.reply = IF up = <<>> THEN "NoUpcoming" ELSE "Schedule",
                                    !.removed = c.removed, !.shown = up]

\* line 276: message.author.id == BOT_OWNER_ID
IsOwner_any(u) == TRUE

IsOwner(u) == u = BOT_OWNER_ID

\* line 276 fails and line 379 answers: an owner command from someone else
NotOwner(u) ==
    /\ ~IsOwner(u)
    /\ \E op \in {"addstream", "removestream", "liststreams", "setannouncechannel"} :
        lastOp' = [Blank EXCEPT !.op = op, !.user = u, !.reply = "UnknownCommand"]
    /\ UNCHANGED <<clock, bot_data, disk>>

\* lines 277-316 with the arguments of an event of S, or with fewer than three
addstream_from(u, S) ==
    /\ IsOwner(u)
    /\ \/ /\ lastOp' = [Blank EXCEPT !.op = "addstream", !.user = u, !.reply = "Usage"]
          /\ UNCHANGED <<bot_data, disk>>
       \/ \E s \in S :
           IF ~strptime_ok(s.datetime)
           THEN /\ lastOp' = [Blank EXCEPT !.op = "addstream", !.user = u, !.stream = s,
                                            !.reply = "InvalidFormat"]
                /\ UNCHANGED <<bot_data, disk>>
           ELSE IF ~timezone_ok(s.original_timezone)
           THEN /\ lastOp' = [Blank EXCEPT !.op = "addstream", !.user = u, !.stream = s,
                                            !.reply = "UnknownZone"]
                /\ UNCHANGED <<bot_data, disk>>
           ELSE /\ Len(bot_data.streams) < MaxLen
                /\ bot_data' = [bot_data EXCEPT !.streams = Append(@, s)]
                /\ disk' = save_data(bot_data')
                /\ lastOp' = [Blank EXCEPT !.op = "addstream", !.user = u, !.stream = s,
                                            !.reply = "StreamAdded"]
    /\ UNCHANGED clock

addstream(u) == addstream_from(u, AllStreams)

\* line 330
InRange_le(idx, n) == 0 <= idx /\ idx <= n

InRange(idx, n) == 0 <= idx /\ idx < n

\* list.pop(idx)
Pop(list, idx) == SubSeq(list, 1, idx) \o SubSeq(list, idx + 2, Len(list))

\* lines 318-339; idx = -1 stands for an absent or non-numeric argument
removestream(u) ==
    /\ IsOwner(u)
    /\ LET c == clean_old_streams(bot_data, disk, clock) IN
       \E idx \in -1..MaxLen :
           IF idx < 0
           THEN /\ bot_data' = c.data /\ disk' = c.disk
                /\ lastOp' = [Blank EXCEPT !.op = "removestream", !.user = u, !.idx = idx,
                                            !.reply = "Usage", !.removed = c.removed]
           ELSE IF InRange(idx, Len(c.data.streams))
           THEN IF idx < Len(c.data.streams)
                THEN /\ bot_data' = [c.data EXCEPT !.streams = Pop(@, idx)]
                     /\ disk' = save_data(bot_data')
                     /\ lastOp' = [Blank EXCEPT !.op = "removestream", !.user = u,
                                                 !.idx = idx, !.reply = "Removed",
                                                 !.removed = c.removed]
                ELSE /\ bot_data' = c.data /\ disk' = c.disk
                     /\ lastOp' = [Blank EXCEPT !.op = "removestream", !.user = u,
                                                 !.idx = idx, !.reply = "Error",
                                                 !.removed = c.removed]
           ELSE /\ bot_data' = c.data /\ disk' = c.disk
                /\ lastOp' = [Blank EXCEPT !.op = "removestream", !.user = u, !.idx = idx,
                                            !.reply = "InvalidIndex", !.removed = c.removed]
    /\ UNCHANGED clock

\* lines 341-355
liststreams(u) ==
    /\ IsOwner(u)
    /\ LET c == clean_old_streams(bot_data, disk, clock) IN
       /\ bot_data' = c.data /\ disk' = c.disk
       /\ lastOp' = [Blank EXCEPT !.op = "liststreams", !.user = u,
                                   !.reply = IF c.data.streams = <<>> THEN "NoStreams" ELSE "List",
                                   !.removed = c.removed]
    /\ UNCHANGED clock

\* lines 357-376; idx = -1 stands for an absent or non-numeric argument, kind
\* for what client.get_channel returns
setannouncechannel(u) ==
    /\ IsOwner(u)
    /\ \/ /\ lastOp' = [Blank EXCEPT !.op = "setannouncechannel", !.user = u, !.reply = "Usage"]
          /\ UNCHANGED <<bot_data, disk>>
       \/ \E id \in ChannelIds, kind \in {"text", "other", "none"} :
           IF kind = "text"
           THEN /\ bot_data' = [bot_data EXCEPT !.announcement_channel_id = Some(id)]
                /\ disk' = save_data(bot_data')
                /\ lastOp' = [Blank EXCEPT !.op = "setannouncechannel", !.user = u,
                                            !.idx = id, !.reply = "ChannelSet"]
           ELSE /\ lastOp' = [Blank EXCEPT !.op = "setannouncechannel", !.user = u,
                                            !.idx = id, !.reply = "NoSuchChannel"]
                /\ UNCHANGED <<bot_data, disk>>
    /\ UNCHANGED clock

\* a token that names no command: line 379 answers anyone but the owner, whose
\* message enters the branch of line 276 and matches none of its commands
unknown(u) ==
    /\ lastOp' = [Blank EXCEPT !.op = "unknown", !.user = u,
                                !.reply = IF IsOwner(u) THEN "" ELSE "UnknownCommand"]
    /\ UNCHANGED <<clock, bot_data, disk>>

\* lines 199-379: one message that starts with "!"
on_message ==
    /\ connected
    /\ \E u \in Users :
        \/ settimezone(u)
        \/ schedule(u)
        \/ NotOwner(u)
        \/ addstream(u)
        \/ removestream(u)
        \/ liststreams(u)
        \/ setannouncechannel(u)
        \/ unknown(u)
    /\ CommandFrame

Next ==
    /\ \/ Tick
       \/ Restart
       \/ on_ready
       \/ on_message
       \/ AnnouncerRun
       \/ SendDone
    /\ UNCHANGED listed

Spec == Init /\ [][Next]_vars

\* ======================================================================
\* Properties
\* ======================================================================
last_announced == bot_data.last_announced_date_utc

C2_Original ==
    [][/\ (lastOp'.op = "announcer" /\ lastOp'.reply \in {"Suppressed", "Unreachable"})
            => (lastOp'.reply = "Suppressed" /\ sent[Date(clock')] = 1 /\ sent' = sent)
       /\ (lastOp'.op = "announcer" /\ lastOp'.reply = "Sending") => sent[run'.today] = 0
       /\ lastOp'.op = "send"
            => /\ lastOp'.reply = "Announced"
               /\ bot_data'.last_announced_date_utc = Some(run.today)
               /\ sent' = [sent EXCEPT ![run.today] = 1]
      ]_vars

\* C2 as amended: a run whose send succeeds has sent exactly one message, the
\* only one of its date, and sets lastAnnouncedDate to that date; a run that
\* finds no channel or whose send fails sends none and leaves the date open;
\* a run on a date already announced sends nothing and ends Suppressed, and
\* only such a run is suppressed.
C2_Amended ==
    [][/\ (lastOp'.op = "send" /\ lastOp'.reply = "Announced")
            => /\ bot_data'.last_announced_date_utc = Some(run.today)
               /\ sent[run.today] = 0
               /\ sent' = [sent EXCEPT ![run.today] = 1]
       /\ (lastOp'.op = "send" /\ lastOp'.reply # "Announced")
            => (sent' = sent /\ UNCHANGED bot_data)
       /\ (lastOp'.op = "announcer" /\ lastOp'.reply = "Sending")
            => (sent[run'.today] = 0 /\ sent' = sent)
       /\ (lastOp'.op = "announcer" /\ lastOp'.reply = "Unreachable")
            => (sent[Date(clock')] = 0 /\ sent' = sent /\ pc' = "idle")
       /\ (lastOp'.op = "announcer" /\ lastOp'.reply = "Suppressed")
            => (sent[Date(clock')] = 1 /\ sent' = sent /\ pc' = "idle")
      ]_vars

\* on the second day, a trigger was suppressed after another had announced
C2_Witness ==
    /\ lastOp.op = "announcer" /\ lastOp.reply = "Suppressed"
    /\ last_announced = Some(1)
    /\ sent = [d \in Days |-> 1]

\* C3: lastAnnouncedDate changes only when the announcer's send has just
\* succeeded, and then to the date that run computed as today; no skipped or
\* suppressed run, no failed send, no command and no restart changes it.
C3_LastAnnouncedFrame ==
    [][bot_data'.last_announced_date_utc # bot_data.last_announced_date_utc
         => /\ pc = "sending"
            /\ lastOp'.op = "send" /\ lastOp'.reply = "Announced"
            /\ bot_data'.last_announced_date_utc = Some(run.today)
      ]_vars

\* a send failed on a day after an announced one, and the date stayed
C3_Witness ==
    /\ lastOp.op = "send" /\ lastOp.reply \in {"Forbidden", "Transport"}
    /\ last_announced = Some(0) /\ Date(clock) = 1

\* C4 as stated: after a run whose send failed, whether or not the upcoming
\* list was empty, the announcer is still scheduled.
C4_StillScheduled ==
    (lastOp.op = "send" /\ lastOp.reply \in {"Forbidden", "Transport"}) => task = "running"

\* the entries the prune at instant now drops: they localize and are not later
Expired(s, now) == Localizes(s) /\ Localized(s) <= now

Unexpired(q, now) == SelectSeq(q, LAMBDA s : ~Expired(s, now))

PrunedOps == {"announcer", "on_ready", "schedule", "liststreams"}

\* C6: pruning is idempotent: right after a prune, a second prune at the same
\* instant removes nothing and leaves the list and the snapshot alone.
C6_PruneIdempotent ==
    [][(lastOp'.op \in PrunedOps /\ lastOp'.reply # "UnknownCommand")
         => LET again == clean_old_streams(bot_data', disk', clock)
            IN /\ again.removed = 0
               /\ again.data = bot_data'
               /\ again.disk = disk'
               /\ Unexpired(bot_data'.streams, clock) = bot_data'.streams
      ]_vars

\* a prune has just dropped two entries at once
C6_Witness == lastOp.op = "liststreams" /\ lastOp.removed = 2

RECURSIVE IsSubseq(_, _)
IsSubseq(a, b) ==
    IF a = <<>> THEN TRUE
    ELSE IF b = <<>> THEN FALSE
    ELSE IF Head(a) = Head(b) THEN IsSubseq(Tail(a), Tail(b))
    ELSE IsSubseq(a, Tail(b))

Malformed(q) == SelectSeq(q, LAMBDA s : ~Localizes(s))

\* C7: an entry that fails to localize leaves the list only by a removestream
\* that removes: every other step keeps the malformed entries, in their
\* order among the entries that stay, in memory and in the snapshot, and no
\* upcoming list shows one.
C7_MalformedKept ==
    [][/\ ~(lastOp'.op = "removestream" /\ lastOp'.reply = "Removed")
            => /\ Malformed(bot_data'.streams) = Malformed(bot_data.streams)
               /\ \/ IsSubseq(bot_data'.streams, bot_data.streams)
                  \/ \E s \in GoodStreams : bot_data'.streams = Append(bot_data.streams, s)
       /\ IF disk'.state = "json"
          THEN disk'.data.streams = bot_data'.streams
          ELSE Malformed(bot_data'.streams) = <<>>
       /\ \A i \in 1..Len(lastOp'.shown) :
             \A s \in BadStreams : lastOp'.shown[i][2] # s.description
      ]_vars

\* a prune dropped an entry and a malformed one is still stored
C7_Witness ==
    /\ lastOp.removed > 0
    /\ Malformed(bot_data.streams) # <<>>
    /\ disk.state = "json" /\ Malformed(disk.data.streams) # <<>>

\* the (timestamp, description) pairs of the entries of q with instant t
PairsAt(q, t) ==
    LET hit == SelectSeq(q, LAMBDA s : Localizes(s) /\ Localized(s) = t)
    IN [i \in 1..Len(hit) |-> <<t, hit[i].description>>]

Instants == {Localized(s) : s \in GoodStreams}

\* C8: the upcoming list of a schedule command or an announcer run holds
\* exactly the entries that localize to an instant after the instant read
\* for it, in ascending order of instant, entries of one instant in their
\* order of insertion.
C8_UpcomingSorted ==
    (lastOp.op = "schedule" \/ (lastOp.op = "announcer" /\ lastOp.reply = "Sending"))
      => LET sh == lastOp.shown IN
         /\ \A i, j \in 1..Len(sh) : i < j => sh[i][1] <= sh[j][1]
         /\ \A i \in 1..Len(sh) : sh[i][1] \in Instants /\ sh[i][1] > clock
         /\ \A t \in Instants :
               SelectSeq(sh, LAMBDA x : x[1] = t)
                 = IF t > clock THEN PairsAt(bot_data.streams, t) ELSE <<>>

\* two entries of one instant are shown in their order of insertion, which
\* is not the order of their descriptions
C8_Witness ==
    /\ lastOp.op = "schedule"
    /\ lastOp.shown = <<(<<2, "b">>), (<<2, "a">>)>>

\* C9: settimezone with a name that is no known zone fails and alters nothing:
\* the store, the snapshot and every user's zone are as before.
C9_InvalidZoneNoChange ==
    [][(lastOp'.op = "settimezone" /\ lastOp'.reply # "Usage"
            /\ ~timezone_ok(lastOp'.zone))
         => /\ lastOp'.reply = "InvalidTimezone"
            /\ bot_data' = bot_data
            /\ disk' = disk
            /\ \A u \in Users :
                  get_user_timezone(bot_data', u) = get_user_timezone(bot_data, u)
      ]_vars

\* an invalid name was refused to a user whose stored zone is not the default
C9_Witness ==
    /\ lastOp.op = "settimezone" /\ lastOp.reply = "InvalidTimezone"
    /\ get_user_timezone(bot_data, lastOp.user) = "Pacific/Auckland"
    /\ lastOp.zone = "Mars/Phobos"

\* ----------------------------------------------------- loading any snapshot
\* the values a field of a hand-written or older snapshot may hold
FieldValues ==
    [streams : {<<>>, <<StreamA>>, <<BadDate>>},
     user_timezones : {<<>>, SetPref(<<>>, "guest", "Pacific/Auckland")},
     announcement_channel_id : {None} \cup {Some(id) : id \in ChannelIds},
     last_announced_date_utc : {None, Some(0)}]

\* schedule.json as a process may find it: absent, not JSON, or an object
\* with any of the four keys
AnyFiles ==
    {MissingFile, CorruptFile} \cup
    {JsonFile([f \in S |-> full[f]]) : full \in FieldValues, S \in SUBSET Fields}

InitLoad ==
    /\ clock = 0
    /\ disk \in AnyFiles
    /\ bot_data = load_data(disk)
    /\ connected = FALSE
    /\ task = "unstarted"
    /\ pc = "idle"
    /\ run = IdleRun
    /\ sent = [d \in Days |-> 0]
    /\ lastOp = Blank
    /\ listed = None

\* on_ready on a store that may lack "streams": line 84 then raises KeyError
\* inside clean_old_streams and the handler ends before line 195
on_ready_loaded ==
    \/ /\ "streams" \in DOMAIN bot_data
       /\ on_ready
    \/ /\ "streams" \notin DOMAIN bot_data
       /\ connected' = TRUE
       /\ lastOp' = [Blank EXCEPT !.op = "on_ready", !.reply = "KeyError"]
       /\ UNCHANGED <<clock, bot_data, disk, task, pc, run, sent>>

NextLoad ==
    /\ \/ Restart
       \/ on_ready_loaded
    /\ UNCHANGED listed

SpecLoad == InitLoad /\ [][NextLoad]_vars

\* C10 as stated: load yields a complete store: the empty default for a
\* missing or corrupt file, and for a snapshot that lacks a field that
\* field's default beside the fields it has.
C10_LoadComplete ==
    lastOp.op \in {"", "restart"}
      => /\ DOMAIN bot_data = Fields
         /\ disk.state # "json" => bot_data = EmptyStore
         /\ disk.state = "json" =>
               \A f \in Fields :
                 bot_data[f] = IF f \in DOMAIN disk.data THEN disk.data[f] ELSE EmptyStore[f]

\* ------------------------------------------------------------ the dispatcher
\* C11 as stated: a command whose token names none of the six commands gets
\* the unrecognized-command notice, whoever sends it, and changes no field
\* of the store.
C11_UnknownNotice ==
    [][lastOp'.op = "unknown"
         => (lastOp'.reply = "UnknownCommand" /\ bot_data' = bot_data /\ disk' = disk)
      ]_vars

OwnerOps == {"addstream", "removestream", "liststreams", "setannouncechannel"}

\* C12: a command of a caller who is not the owner never appends an event,
\* removes one by index, lists the stored events or changes the destination;
\* addstream, removestream, liststreams and setannouncechannel from such a
\* caller are answered as unknown commands and leave the store, the snapshot
\* and so the event list and the destination as they were.
C12_OwnerOnly ==
    [][(lastOp'.user # "" /\ lastOp'.user # BOT_OWNER_ID)
         => /\ lastOp'.reply \notin {"StreamAdded", "Removed", "List", "NoStreams", "ChannelSet"}
            /\ bot_data'.announcement_channel_id = bot_data.announcement_channel_id
            /\ IsSubseq(bot_data'.streams, bot_data.streams)
            /\ Unexpired(bot_data.streams, clock) = Unexpired(bot_data'.streams, clock)
            /\ lastOp'.op \in OwnerOps
                 => /\ lastOp'.reply = "UnknownCommand"
                    /\ bot_data' = bot_data
                    /\ disk' = disk
      ]_vars

\* someone else asked for an owner command while an expired event and a
\* destination were stored, and was refused
C12_Witness ==
    /\ lastOp.op \in OwnerOps /\ lastOp.user = "guest"
    /\ lastOp.reply = "UnknownCommand"
    /\ bot_data.announcement_channel_id # None
    /\ \E i \in 1..Len(bot_data.streams) : Expired(bot_data.streams[i], clock)

\* ----------------------------------------------------------------- startup
StoreSteps ==
    {"announcer", "send", "settimezone", "schedule", "unknown"} \cup OwnerOps

\* C13: a start of the process sends nothing and begins no announcer run,
\* whatever lastAnnouncedDate is: loading the snapshot and on_ready leave the
\* announcements and the announcer's position alone, on_ready prunes at once,
\* before any command or announcer run of the process, and an announcement
\* comes only from a later run of the recurring task.
C13_StartupPrunesOnly ==
    [][/\ lastOp'.op = "restart"
            => /\ sent' = sent /\ pc' = "idle" /\ ~connected'
               /\ bot_data'.last_announced_date_utc = bot_data.last_announced_date_utc
       /\ lastOp'.op = "on_ready"
            => /\ sent' = sent /\ pc' = pc /\ run' = run
               /\ bot_data' = [bot_data EXCEPT !.streams = Unexpired(@, clock)]
               /\ lastOp'.removed = Len(bot_data.streams) - Len(bot_data'.streams)
               /\ connected'
       /\ lastOp'.op \in StoreSteps => connected
       /\ sent' # sent => (lastOp'.op = "send" /\ pc = "sending")
       /\ (pc' = "sending" /\ pc = "idle") => (lastOp'.op = "announcer" /\ task = "running")
      ]_vars

\* a process started on a day not yet announced, with a destination set: its
\* on_ready dropped an expired event and nothing was sent
C13_Witness ==
    /\ lastOp.op = "on_ready" /\ lastOp.removed > 0
    /\ bot_data.announcement_channel_id # None
    /\ last_announced = Some(0) /\ Date(clock) = 1
    /\ sent[1] = 0 /\ pc = "idle"

\* ------------------------------------------------------------ clock reads
\* C14 as stated: one schedule command or announcer run uses one instant for
\* its prune, its filter and its date, so every event that localizes and
\* is left by the prune of the operation is in the upcoming list of that
\* operation.
C14_SurvivorsShown ==
    [][(lastOp'.op = "schedule" \/ (lastOp'.op = "announcer" /\ lastOp'.reply = "Sending"))
         => \A i \in 1..Len(bot_data'.streams) :
               LET s == bot_data'.streams[i] IN
               Localizes(s) =>
                 \E j \in 1..Len(lastOp'.shown) :
                     lastOp'.shown[j] = <<Localized(s), s.description>>
      ]_vars

\* ------------------------------------------------- pruning any event list
RECURSIVE Lists(_, _)
Lists(S, n) ==
    IF n = 0 THEN {<<>>}
    ELSE LET shorter == Lists(S, n - 1)
         IN shorter \cup {Append(q, x) : q \in shorter, x \in S}

\* a process at any instant whose store holds any list of events, written by
\* addstream or by hand, expired during a downtime or not
InitPrune ==
    /\ clock \in 0..MaxClock
    /\ \E q \in Lists(AllStreams, MaxLen + 1) :
          bot_data = [EmptyStore EXCEPT !.streams = q]
    /\ disk = save_data(bot_data)
    /\ connected = FALSE
    /\ task = "unstarted"
    /\ pc = "idle"
    /\ run = IdleRun
    /\ sent = [d \in Days |-> 0]
    /\ lastOp = Blank
    /\ listed = None

NextPrune ==
    /\ \/ Tick
       \/ on_ready
    /\ UNCHANGED listed

SpecPrune == InitPrune /\ [][NextPrune]_vars

\* C15: a prune at the instant now removes exactly the events that localize
\* to an instant at or before now, one equal to now included, keeps every
\* other event in its place among those that stay, counts what it dropped,
\* and writes the snapshot if and only if it dropped something.
C15_PruneExact ==
    [][lastOp'.op = "on_ready"
         => LET old == bot_data.streams
                new == bot_data'.streams
                dropped == SelectSeq(old, LAMBDA s : Localizes(s) /\ Localized(s) <= clock)
            IN /\ new = SelectSeq(old, LAMBDA s : ~(Localizes(s) /\ Localized(s) <= clock))
               /\ IsSubseq(new, old)
               /\ lastOp'.removed = Len(dropped)
               /\ Len(old) = Len(new) + lastOp'.removed
               /\ \A i \in 1..Len(new) : Localizes(new[i]) => Localized(new[i]) > clock
               /\ disk' = IF lastOp'.removed > 0 THEN JsonFile(bot_data') ELSE disk
      ]_vars

\* a prune dropped an event whose instant was the instant of the prune and
\* kept a malformed one and a later one in their order
C15_Witness ==
    /\ lastOp.op = "on_ready" /\ lastOp.removed = 1
    /\ clock = 1
    /\ bot_data.streams = <<BadZone, StreamA>>

\* ------------------------------------------------------------- persistence
\* C16: whenever a handler is at an await or has ended, the snapshot holds
\* the store: what load_data reads from it is the store, field by field; and
\* the snapshot is written only by a step that changed the store, so a prune
\* that removed nothing writes nothing.
C16_SavedAtYield ==
    /\ load_data(disk) = bot_data
    /\ [][/\ load_data(disk') = bot_data'
          /\ DOMAIN bot_data' = Fields
          /\ disk' # disk => (bot_data' # bot_data /\ disk' = JsonFile(bot_data'))
         ]_vars

\* an announcer run is at its await: its prune dropped an event and wrote
\* the snapshot before the send began
C16_Witness ==
    /\ pc = "sending" /\ lastOp.op = "announcer" /\ lastOp.removed > 0
    /\ disk = JsonFile(bot_data)
    /\ bot_data.streams # <<>>

\* ------------------------------------------------- what addstream lets in
\* a first start on a store whose events all localize
InitAdd ==
    /\ clock = 0
    /\ disk \in {MissingFile, LegacyFile, JsonFile(EmptyStore)}
    /\ bot_data = load_data(disk)
    /\ connected = FALSE
    /\ task = "unstarted"
    /\ pc = "idle"
    /\ run = IdleRun
    /\ sent = [d \in Days |-> 0]
    /\ lastOp = Blank
    /\ listed = None

\* on_ready on a store that may hold an event at the end of the calendar:
\* line 88 then raises OverflowError, which line 94 does not catch, and the
\* handler ends before line 195
on_ready_add ==
    \/ /\ \A i \in 1..Len(bot_data.streams) :
             localize_ok(bot_data.streams[i].datetime, bot_data.streams[i].original_timezone)
       /\ on_ready
    \/ /\ \E i \in 1..Len(bot_data.streams) :
             ~localize_ok(bot_data.streams[i].datetime, bot_data.streams[i].original_timezone)
       /\ connected' = TRUE
       /\ lastOp' = [Blank EXCEPT !.op = "on_ready", !.reply = "OverflowError"]
       /\ UNCHANGED <<clock, bot_data, disk, task, pc, run, sent>>

NextAdd ==
    /\ \/ Tick
       \/ on_ready_add
       \/ /\ connected
          /\ addstream_from(BOT_OWNER_ID, AllStreams \cup {StreamEdge})
          /\ CommandFrame
    /\ UNCHANGED listed

SpecAdd == InitAdd /\ [][NextAdd]_vars

\* C17 as stated: addstream appends its event, once and at the end, when the
\* date and time parse and the zone is known, and otherwise reports the error
\* and leaves list and snapshot alone; so from a store whose events all
\* localize every event of every store reached localizes.
C17_AllLocalize ==
    /\ \A i \in 1..Len(bot_data.streams) : Localizes(bot_data.streams[i])
    /\ [][/\ \A i \in 1..Len(bot_data'.streams) : Localizes(bot_data'.streams[i])
          /\ lastOp'.op = "addstream"
               => IF /\ lastOp'.reply # "Usage"
                     /\ strptime_ok(lastOp'.stream.datetime)
                     /\ timezone_ok(lastOp'.stream.original_timezone)
                  THEN /\ bot_data'.streams = Append(bot_data.streams, lastOp'.stream)
                       /\ lastOp'.reply = "StreamAdded"
                  ELSE /\ bot_data' = bot_data /\ disk' = disk
                       /\ lastOp'.reply \in {"Usage", "InvalidFormat", "UnknownZone"}
         ]_vars

\* ------------------------------------------------------------ interleaving
\* C18: handlers that interleave at the awaits lose and tear nothing.  While
\* an announcer run waits at its send, no other handler touches the locals
\* of the run or the one field the run is going to write; when the send has
\* returned the run writes that field alone, into the store as the handlers
\* in between have left it, and the snapshot holds all of it; every other
\* handler does its writes in one step.  The run's write commutes with what
\* came in between, so the store is that of the run followed by the others.
C18_NoLostUpdate ==
    [][/\ (pc = "sending" /\ lastOp'.op \notin {"send", "restart"})
            => /\ pc' = "sending" /\ run' = run
               /\ bot_data'.last_announced_date_utc = bot_data.last_announced_date_utc
       /\ lastOp'.op = "send"
            => /\ pc = "sending" /\ pc' = "idle"
               /\ \A f \in Fields \ {"last_announced_date_utc"} : bot_data'[f] = bot_data[f]
               /\ bot_data'.last_announced_date_utc
                     \in {bot_data.last_announced_date_utc, Some(run.today)}
               /\ load_data(disk') = bot_data'
       /\ lastOp'.op \in (StoreSteps \ {"announcer", "send"}) => (pc' = pc /\ run' = run)
      ]_vars

\* the owner added an event while an announcer run was waiting at its send
C18_Witness ==
    /\ pc = "sending"
    /\ lastOp.op = "addstream" /\ lastOp.reply = "StreamAdded"
    /\ Len(bot_data.streams) = 2

\* ------------------------------------------------------------ single flight
\* C19 as stated: one announcer run at a time, the recurring task started at
\* most once in a process however often the ready event fires, and every
\* run ending Announced, Suppressed or Skipped.
C19_Original ==
    [][/\ (lastOp'.op = "on_ready" /\ lastOp'.reply = "Started") => task = "unstarted"
       /\ lastOp'.op = "announcer" => (pc = "idle" /\ task = "running")
       /\ lastOp'.op = "send" => (pc = "sending" /\ pc' = "idle" /\ task' = "running")
      ]_vars

\* ------------------------------------------- the owner lists, then removes
\* the owner's commands on the event list as time passes, with the list of
\* the last liststreams kept until the next addstream or removestream
NextList ==
    \/ Tick /\ UNCHANGED listed
    \/ on_ready /\ UNCHANGED listed
    \/ /\ connected /\ CommandFrame
       /\ \/ schedule(BOT_OWNER_ID) /\ UNCHANGED listed
          \/ liststreams(BOT_OWNER_ID) /\ listed' = Some(bot_data'.streams)
          \/ addstream(BOT_OWNER_ID) /\ listed' = None
          \/ removestream(BOT_OWNER_ID) /\ listed' = None

SpecList == Init /\ [][NextList]_vars

\* C20 as stated: removestream i, with no addstream or removestream since the
\* last liststreams, removes the event that liststreams showed at index i and
\* keeps the others in their order, however far the clock has moved between.
C20_RemovesListed ==
    [][(/\ lastOp'.op = "removestream"
        /\ listed # None
        /\ InRange(lastOp'.idx, Len(listed[1])))
         => bot_data'.streams = Pop(listed[1], lastOp'.idx)
      ]_vars

====
